---- MODULE Spec2Model ----
(***************************************************************************)
(* A model of the errbot plugin ChatOpsAnything (src/chatops-anything.py). *)
(*                                                                         *)
(* Text is modelled as a sequence of one-character strings, so that the    *)
(* canonicalisation of names (lower / strip / replace) is computed and not *)
(* assumed.  A dict is a function whose DOMAIN is its set of keys.         *)
(*                                                                         *)
(* The module holds these state machines over one set of variables:       *)
(*   SpecLoad     _load_exec_configs applied to bounded chains of entries  *)
(*   SpecFiles    _load_exec_configs from its argument, the config files   *)
(*   SpecCleanup  _create_temp_dir / _cleanup_tempdir on a small file tree *)
(*   SpecRun      concurrent invocations of the generator _run_command     *)
(*   Spec         the plugin life cycle check / configure / activate /     *)
(*                deactivate                                               *)
(*   SpecNames    the life cycle on names that need canonicalising         *)
(*   SpecTemp     any sequence of configure / activate / deactivate        *)
(*   SpecCalls    _download_executable, _validate_path and                 *)
(*                _get_all_execs_in_path called on their own               *)
(***************************************************************************)
EXTENDS Integers, Sequences, FiniteSets, TLC

VARIABLES
    loadIn,      \* _load_exec_configs: the chained entries of the config files
    loadEnv,     \* _load_exec_configs: what the loader reads of self.config and the disk
    loadOut,     \* _load_exec_configs: its outcome ("pending" before the call)
    fs,          \* the file tree: the set of paths that exist
    cleanupLog,  \* the last call of _cleanup_tempdir: its path and what it did
    EXECUTABLE_CONFIGS,  \* self.EXECUTABLE_CONFIGS: canonical name -> descriptor
    binaries,    \* the executables on disk: "exec", "noexec" or "missing"
    gen,         \* the generators made by _run_command, one per invocation
    proc,        \* the subprocess of each invocation
    phase,       \* the life cycle: where the host has taken the plugin
    configuration,  \* the configuration the host holds for the plugin
    config,      \* self.config, set by configure
    checkResult, \* how check_configuration ended
    confEntries, \* the chained entries of the files in the config directory
    listing,     \* the directory entries of BIN_PATH
    commands,    \* the commands of the dynamic plugin: name -> doc
    dispatched,  \* the registered commands the host has dispatched
    config_files,  \* _load_exec_configs: its argument, the config files
    tempMade,    \* _create_temp_dir has been called by configure
    deactLog,    \* the calls of deactivate: how many, and how the last one went
    callIn,      \* a method called on its own: the method and its arguments
    callOut      \* a method called on its own: its outcome

loadVars == <<loadIn, loadEnv, loadOut, config_files>>
treeVars == <<fs, cleanupLog>>
runVars == <<EXECUTABLE_CONFIGS, binaries, gen, proc>>
lifeVars == <<phase, configuration, config, checkResult, confEntries, listing,
              commands, dispatched, tempMade, deactLog>>
callVars == <<callIn, callOut>>

vars == <<loadIn, loadEnv, loadOut, fs, cleanupLog, EXECUTABLE_CONFIGS, binaries, gen, proc,
          phase, configuration, config, checkResult, confEntries, listing,
          commands, dispatched, config_files, tempMade, deactLog, callIn, callOut>>

(***************************************************************************)
(* Bounds of the model.                                                    *)
(***************************************************************************)
MaxEntries == 3      \* longest chained sequence of config entries
MaxParts == 3        \* most components of a path handed to _cleanup_tempdir
MaxInvocations == 2  \* invocations of _run_command in flight
MaxTicks == 3        \* seconds a subprocess is followed for
MaxLifeEntries == 2  \* longest chained sequence of config entries in a life cycle
MaxDispatch == 1     \* commands the host dispatches in a life cycle
MaxDeactivations == 2  \* calls of deactivate in a life cycle
MaxFiles == 2        \* most config files handed to _load_exec_configs

(***************************************************************************)
(* Text: a sequence of one-character strings.                              *)
(***************************************************************************)
\* str.lower() on one character
LowerChar(c) ==
    CASE c = "A" -> "a"
      [] c = "B" -> "b"
      [] c = "D" -> "d"
      [] OTHER -> c

\* str.lower()
Lower(s) == [i \in 1..Len(s) |-> LowerChar(s[i])]

\* str.strip(): leading and trailing whitespace removed
RECURSIVE LStrip(_)
LStrip(s) == IF s # <<>> /\ Head(s) = " " THEN LStrip(Tail(s)) ELSE s

RECURSIVE RStrip(_)
RStrip(s) ==
    IF s # <<>> /\ s[Len(s)] = " " THEN RStrip(SubSeq(s, 1, Len(s) - 1)) ELSE s

Strip(s) == RStrip(LStrip(s))

\* str.replace(" ", "_")
ReplaceSpaces(s) == [i \in 1..Len(s) |-> IF s[i] = " " THEN "_" ELSE s[i]]

\* name.lower().strip().replace(" ", "_")
Canonical(name) == ReplaceSpaces(Strip(Lower(name)))

(***************************************************************************)
(* Dicts.                                                                  *)
(***************************************************************************)
EmptyDict == <<>>

\* d[k] = v
Put(d, k, v) == [x \in (DOMAIN d) \cup {k} |-> IF x = k THEN v ELSE d[x]]

\* d.pop(k, None), the dict that is left
Without(d, k) == [x \in (DOMAIN d) \ {k} |-> d[x]]

\* the sequences over S of length at most n
RECURSIVE SeqsUpTo(_, _)
SeqsUpTo(S, n) ==
    IF n = 0 THEN {<<>>}
    ELSE LET shorter == SeqsUpTo(S, n - 1)
         IN  shorter \cup {Append(s, x) : s \in shorter, x \in S}

(***************************************************************************)
(* Paths as the loader sees them: a directory and a file name.             *)
(* Path(p).name is the file name; os.path.join(TEMP_PATH, filename) is the *)
(* file filename of the temp area.                                         *)
(***************************************************************************)
PathOf(dir, name) == [dir |-> dir, name |-> name]

(***************************************************************************)
(* The plugin before the host has done anything with it.                   *)
(***************************************************************************)
\* configuration is None: the host holds no configuration for the plugin
NoneConfig == [kind |-> "None", d |-> EmptyDict]

\* deactivate has not been called
NoDeactivation ==
    [calls |-> 0, caught |-> "none", raised |-> "none", removed |-> {}, hostStep |-> FALSE]

IdleLife ==
    /\ phase = "Unconfigured"
    /\ configuration = NoneConfig
    /\ config = EmptyDict
    /\ checkResult = "none"
    /\ confEntries = <<>>
    /\ listing = {}
    /\ commands = EmptyDict
    /\ dispatched = {}
    /\ tempMade = FALSE
    /\ deactLog = NoDeactivation

\* no method is being called on its own
IdleCall ==
    /\ callIn = [fn |-> "none"]
    /\ callOut = [pc |-> "idle"]

(***************************************************************************)
(* The HTTP side of _download_executable: what the server answers for a    *)
(* url.  length = -1 stands for a response without a content-length.       *)
(***************************************************************************)
Server(res) ==
    CASE res = "r200"  -> [status |-> 200, length |-> -1, body |-> <<"f">>]
      [] res = "rlen3" -> [status |-> 200, length |-> 3, body |-> <<"f", "g", "h">>]
      [] res = "rlen4" -> [status |-> 200, length |-> 4, body |-> <<"f", "g", "h", "i">>]
      [] res = "r300"  -> [status |-> 300, length |-> -1, body |-> <<"m">>]
      [] OTHER         -> [status |-> 404, length |-> -1, body |-> <<>>]

\* url, as urlparse(url.strip()) and requests.get read it
Url(scheme, res) == [scheme |-> scheme, res |-> res]

\* response.raise_for_status(): requests raises HTTPError for the client and
\* server error statuses, 400 to 599.  The status is that of the last
\* response, redirects with a Location having been followed.
RaisesForStatus(response) == response.status >= 400 /\ response.status < 600

(***************************************************************************)
(* _download_executable(url, filename): files is the temp area (file name  *)
(* -> content and execute bits), env.tempWritable whether open(.., 'wb')   *)
(* succeeds there.  The result names the exception that leaves the method  *)
(* ("none": it returns path).                                              *)
(***************************************************************************)
download_executable(url, filename, env, files) ==
    LET response == Server(url.res)
        filepath == PathOf("TEMP", filename)
    IN  IF RaisesForStatus(response)
        THEN [exc |-> "HTTPError", path |-> filepath, files |-> files]
        ELSE IF response.length # -1 /\ response.length > env.MAX_DOWNLOAD_SIZE
        THEN [exc |-> "ValidationException", path |-> filepath, files |-> files]
        ELSE IF ~env.tempWritable
        THEN [exc |-> "OSError", path |-> filepath, files |-> files]
        ELSE [exc |-> "none", path |-> filepath,
              files |-> Put(files, filename, [content |-> response.body, exec |-> TRUE])]

(***************************************************************************)
(* The file tree of _create_temp_dir and _cleanup_tempdir.  An absolute    *)
(* path is the sequence of its components, <<>> the root directory; a      *)
(* path given to the plugin may hold ".." components, which pathlib keeps  *)
(* and the operating system resolves.  No symbolic link is modelled.       *)
(***************************************************************************)
\* gettempdir()
SystemTemp == <<"tmp">>

\* os.path.join(gettempdir(), f"errbot-copsa-{self.HASH}")
OwnTemp == <<"tmp", "copsa">>

\* the paths that may exist, and those of them that are regular files
Universe ==
    { <<"tmp">>, <<"tmp", "copsa">>, <<"tmp", "copsa", "dl">>, <<"tmp", "t">>,
      <<"etc">>, <<"etc", "f">>, <<"opt">> }

RegularFiles == { <<"tmp", "copsa", "dl">>, <<"etc", "f">> }

Parent(p) == SubSeq(p, 1, Len(p) - 1)

IsDir(tree, p) == p = <<>> \/ (p \in tree /\ p \notin RegularFiles)

IsPrefix(p, q) == Len(p) <= Len(q) /\ SubSeq(q, 1, Len(p)) = p

\* PurePath.parents: the proper lexical prefixes of the path as written
Parents(p) == {SubSeq(p, 1, k) : k \in 0..(Len(p) - 1)}

\* the operating system's resolution of a path: each component is looked
\* up in the directory reached so far, ".." being its parent (the root's
\* parent is the root); ok is FALSE when a directory on the way is missing
RECURSIVE Resolve(_, _, _)
Resolve(tree, cur, path) ==
    IF path = <<>> THEN [ok |-> TRUE, at |-> cur]
    ELSE IF ~IsDir(tree, cur) THEN [ok |-> FALSE, at |-> cur]
    ELSE IF Head(path) = ".."
         THEN Resolve(tree, IF cur = <<>> THEN cur ELSE Parent(cur), Tail(path))
         ELSE Resolve(tree, Append(cur, Head(path)), Tail(path))

\* shutil.rmtree(path, ignore_errors=True): what it removes.  A path that
\* does not resolve to a directory is an error, ignored; of the root
\* directory everything but the root itself goes.
rmtree(tree, path) ==
    LET r == Resolve(tree, <<>>, path)
    IN  IF r.ok /\ IsDir(tree, r.at)
        THEN {p \in tree : IsPrefix(r.at, p)}
        ELSE {}

\* lines 577-597: _cleanup_tempdir(path)
cleanup_tempdir(tree, path) ==
    IF SystemTemp \in Parents(path)
    THEN [called |-> TRUE, path |-> path, refused |-> FALSE, removed |-> rmtree(tree, path)]
    ELSE [called |-> TRUE, path |-> path, refused |-> TRUE, removed |-> {}]

\* lines 561-575: tmp.mkdir(parents=True, exist_ok=True)
create_temp_dir(tree) == tree \cup {SubSeq(OwnTemp, 1, k) : k \in 1..Len(OwnTemp)}

PathParts == {"tmp", "etc", "copsa", "t", ".."}

InitialTree == { <<"tmp">>, <<"tmp", "t">>, <<"etc">>, <<"etc", "f">>, <<"opt">> }

NoCleanup == [called |-> FALSE, path |-> <<>>, refused |-> FALSE, removed |-> {}]

IdleTree ==
    /\ fs = InitialTree
    /\ cleanupLog = NoCleanup

\* a call of _create_temp_dir()
CreateTempDir ==
    /\ fs' = create_temp_dir(fs)
    /\ UNCHANGED <<cleanupLog, loadVars, runVars, lifeVars, callVars>>

\* a download into the plugin's temp dir, or any other process creating a path
CreatePath ==
    \E p \in Universe \ fs :
        /\ IsDir(fs, Parent(p))
        /\ fs' = fs \cup {p}
        /\ UNCHANGED <<cleanupLog, loadVars, runVars, lifeVars, callVars>>

\* a call of _cleanup_tempdir(path)
CleanupTempdir ==
    \E path \in SeqsUpTo(PathParts, MaxParts) :
        /\ cleanupLog' = cleanup_tempdir(fs, path)
        /\ fs' = fs \ cleanupLog'.removed
        /\ UNCHANGED <<loadVars, runVars, lifeVars, callVars>>

NextCleanup == CreateTempDir \/ CreatePath \/ CleanupTempdir

(***************************************************************************)
(* _run_command.  The method holds yield statements, so a call of it runs  *)
(* nothing and makes a generator; its consumer resumes it, and receives    *)
(* as messages the values it yields.  A return statement ends the          *)
(* generator: its value travels in StopIteration and is no yielded value.  *)
(*                                                                         *)
(* gen[i].pc: "idle" (no call yet), "created" (called, not yet resumed),   *)
(* "acked" (suspended at the yield of line 440), "returned" (ended by a    *)
(* return statement), "raised" (ended by an exception).                    *)
(* proc[i]: the subprocess delegator.run(.., block=False) spawned, and the *)
(* seconds it has run.  Its output and exit status are not modelled: the   *)
(* generator ends before it reads them.                                    *)
(***************************************************************************)
Invocations == 1..MaxInvocations

\* self._bot.prefix
Prefix == <<"!">>

\* str.replace(old, ''): the non-overlapping occurrences of old, left to
\* right, are deleted; an empty old leaves the text as it is
RECURSIVE RemoveAll(_, _)
RemoveAll(s, old) ==
    IF old = <<>> \/ Len(s) < Len(old) THEN s
    ELSE IF SubSeq(s, 1, Len(old)) = old
         THEN RemoveAll(SubSeq(s, Len(old) + 1, Len(s)), old)
         ELSE <<Head(s)>> \o RemoveAll(Tail(s), old)

\* lines 415-417: the command name recovered from the message
CommandName(body, args) == Canonical(RemoveAll(RemoveAll(body, args), Prefix))

\* the body of the chat message that invokes command typed with argument text args
Body(typed, args) == Prefix \o typed \o (IF args = <<>> THEN <<>> ELSE <<" ">> \o args)

\* the messages of _run_command
NoPath == PathOf("", <<>>)
Message(kind, pid, bin, name) == [kind |-> kind, pid |-> pid, bin |-> bin, name |-> name]
NoMessage == Message("none", 0, NoPath, <<>>)

\* lines 429-430: the timeout handed to delegator.run
EffectiveTimeout(executable_config, TIMEOUT) ==
    IF "timeout" \in DOMAIN executable_config THEN executable_config["timeout"] ELSE TIMEOUT

NoGen ==
    [pc |-> "idle", typed |-> <<>>, args |-> <<>>, command_name |-> <<>>,
     replies |-> <<>>, retval |-> NoMessage, exc |-> "none", timeout |-> 0]

NoProc == [state |-> "none", elapsed |-> 0]

\* lines 414-440, from the call to the first yield or to a return
StartCommand(g, configs, bins, TIMEOUT, pid) ==
    LET command_name == CommandName(Body(g.typed, g.args), g.args)
        g1 == [g EXCEPT !.command_name = command_name]
    IN  IF command_name \notin DOMAIN configs
        THEN \* line 422
             [g1 EXCEPT !.pc = "returned",
                        !.retval = Message("not in config", 0, NoPath, command_name)]
        ELSE LET executable_config == configs[command_name]
                 bin == executable_config["bin_path"]
             IN  CASE bins[bin] = "missing" ->
                        \* line 433
                        [g1 EXCEPT !.pc = "returned",
                                   !.retval = Message("executable not found", 0, bin, <<>>)]
                   [] bins[bin] = "noexec" ->
                        \* line 436
                        [g1 EXCEPT !.pc = "returned",
                                   !.retval = Message("os error", 0, bin, <<>>)]
                   [] OTHER ->
                        \* line 440
                        [g1 EXCEPT !.pc = "acked",
                                   !.timeout = EffectiveTimeout(executable_config, TIMEOUT),
                                   !.replies = Append(@, Message("started", pid, NoPath, <<>>))]

\* lines 441-444, from the first yield on.  command.block() has returned:
\* the subprocess has ended.  delegator's Command.out is a property (line
\* 467 reads it as one), so command.out() calls a str: TypeError, and the
\* yields of lines 443 and 444 are not reached.
ResumeCommand(g) == [g EXCEPT !.pc = "raised", !.exc = "TypeError"]

\* self.config['TIMEOUT'] and the commands of the run model
RunTimeout == 2

Typed == { <<"d", "d">>, <<"L", "s">>, <<"x">> }
ArgTexts == { <<>>, <<"d">> }

BinDd == PathOf("bin", <<"d", "d">>)
BinLs == PathOf("bin", <<"l", "s">>)

RunConfigs ==
    [n \in { <<"d", "d">>, <<"l", "s">> } |->
        IF n = <<"d", "d">>
        THEN [x \in {"bin_path", "help", "timeout"} |->
                 CASE x = "bin_path" -> BinDd [] x = "help" -> "A" [] OTHER -> 1]
        ELSE [x \in {"bin_path", "help"} |->
                 IF x = "bin_path" THEN BinLs ELSE "B"]]

IdleRun ==
    /\ EXECUTABLE_CONFIGS = EmptyDict
    /\ binaries = EmptyDict
    /\ gen = [i \in Invocations |-> NoGen]
    /\ proc = [i \in Invocations |-> NoProc]

\* the host calls the command: self._run_command(msg, args) makes the generator
Invoke(i) ==
    \E typed \in Typed, args \in ArgTexts :
        /\ gen[i].pc = "idle"
        /\ gen' = [gen EXCEPT ![i] = [NoGen EXCEPT !.pc = "created",
                                                   !.typed = typed, !.args = args]]
        /\ UNCHANGED <<EXECUTABLE_CONFIGS, binaries, proc, loadVars, treeVars, lifeVars, callVars>>

\* the consumer resumes the generator for the first time
Start(i) ==
    /\ gen[i].pc = "created"
    /\ gen' = [gen EXCEPT ![i] =
                  StartCommand(gen[i], EXECUTABLE_CONFIGS, binaries, RunTimeout, i)]
    /\ proc' = [proc EXCEPT ![i] =
                  IF gen'[i].pc = "acked" THEN [NoProc EXCEPT !.state = "running"] ELSE @]
    /\ UNCHANGED <<EXECUTABLE_CONFIGS, binaries, loadVars, treeVars, lifeVars, callVars>>

\* the consumer resumes the generator after the acknowledgment; block()
\* waits for the subprocess, however long it runs
Resume(i) ==
    /\ gen[i].pc = "acked"
    /\ proc[i].state = "exited"
    /\ gen' = [gen EXCEPT ![i] = ResumeCommand(gen[i])]
    /\ UNCHANGED <<EXECUTABLE_CONFIGS, binaries, proc, loadVars, treeVars, lifeVars, callVars>>

\* a second passes with the subprocess running; nothing ends it at its timeout
Tick(i) ==
    /\ proc[i].state = "running"
    /\ proc[i].elapsed < MaxTicks
    /\ proc' = [proc EXCEPT ![i].elapsed = @ + 1]
    /\ UNCHANGED <<EXECUTABLE_CONFIGS, binaries, gen, loadVars, treeVars, lifeVars, callVars>>

\* the subprocess ends of its own accord
ProcExit(i) ==
    /\ proc[i].state = "running"
    /\ proc' = [proc EXCEPT ![i].state = "exited"]
    /\ UNCHANGED <<EXECUTABLE_CONFIGS, binaries, gen, loadVars, treeVars, lifeVars, callVars>>

\* an executable is deleted, or loses its execute bits, after registration
DamageBinary ==
    \E b \in DOMAIN binaries, how \in {"missing", "noexec"} :
        /\ binaries[b] = "exec"
        /\ binaries' = [binaries EXCEPT ![b] = how]
        /\ UNCHANGED <<EXECUTABLE_CONFIGS, gen, proc, loadVars, treeVars, lifeVars, callVars>>

NextRun ==
    \/ \E i \in Invocations : Invoke(i)
    \/ \E i \in Invocations : Start(i)
    \/ \E i \in Invocations : Resume(i)
    \/ \E i \in Invocations : Tick(i)
    \/ \E i \in Invocations : ProcExit(i)
    \/ DamageBinary

(***************************************************************************)
(* _load_exec_configs.  An element of the chained config lists is          *)
(* [kind, d]: kind "dict" with the mapping d, or kind "int" for a scalar   *)
(* that a config file may hold in place of a mapping.                      *)
(* The loop's state: config_dict, the downloads attempted (fetched), the   *)
(* temp area (files), the exception that left the loop (exc) and whether   *)
(* the TypeError handler ran (typeError).                                  *)
(***************************************************************************)
LoadStart ==
    [config_dict |-> EmptyDict, fetched |-> <<>>, files |-> EmptyDict,
     exc |-> "none", typeError |-> FALSE]

\* a merge that replaces the earlier descriptor wholesale
merge_two_dicts_replace(x, y) == y

\* lines 245-257: z = deepcopy(x); z.update(y)
merge_two_dicts(x, y) ==
    [k \in (DOMAIN x) \cup (DOMAIN y) |-> IF k \in DOMAIN y THEN y[k] ELSE x[k]]

\* a discard that raises in place of continuing
DiscardEntryRaises(st, d) == [st EXCEPT !.exc = "KeyError"]

\* lines 282-283 and 286-288: log the error and continue with the next entry
DiscardEntry(st, d) == st

\* lines 304-317: name the entry and insert or merge it
InsertEntry(st, loaded_config) ==
    LET bin_path == loaded_config["bin_path"]
        rest == Without(loaded_config, "name")
        raw  == IF "name" \in DOMAIN loaded_config
                THEN loaded_config["name"] ELSE bin_path.name
        name == Canonical(raw)
    IN  IF name \notin DOMAIN st.config_dict
        THEN [st EXCEPT !.config_dict = Put(@, name, rest)]
        ELSE [st EXCEPT !.config_dict =
                            Put(@, name, merge_two_dicts(st.config_dict[name], rest))]

\* lines 290-303: the entry has a url and a name and no bin_path
FetchEntry(st, d, env) ==
    IF d["url"].scheme \in {"http", "https"}
    THEN LET r  == download_executable(d["url"], d["name"], env, st.files)
             s1 == [st EXCEPT !.fetched = Append(@, [url |-> d["url"], name |-> d["name"]]),
                              !.files = r.files]
         IN  CASE r.exc \in {"ValidationException", "HTTPError"} -> s1
               [] r.exc = "OSError" -> [s1 EXCEPT !.exc = "OSError"]
               [] OTHER -> InsertEntry(s1, Put(d, "bin_path", r.path))
    \* line 303 logs and falls through to line 304, which reads
    \* loaded_config['bin_path']: KeyError
    ELSE [st EXCEPT !.exc = "KeyError"]

\* lines 278-317: one turn of the loop
ProcessEntry(st, e, env) ==
    IF e.kind # "dict"
    THEN \* 'bin_path' not in 5: TypeError, caught at line 318
         [st EXCEPT !.typeError = TRUE]
    ELSE LET d == e.d
         IN  IF "bin_path" \notin DOMAIN d
             THEN IF "url" \notin DOMAIN d
                  THEN DiscardEntry(st, d)
                  ELSE IF "name" \notin DOMAIN d
                       THEN DiscardEntry(st, d)
                       ELSE FetchEntry(st, d, env)
             ELSE InsertEntry(st, d)

\* lines 277-322: the loop, left by an exception or at the end of the input
RECURSIVE RunLoop(_, _, _)
RunLoop(st, entries, env) ==
    IF entries = <<>> \/ st.exc # "none" \/ st.typeError
    THEN st
    ELSE RunLoop(ProcessEntry(st, Head(entries), env), Tail(entries), env)

\* lines 273-322: the mapping returned, or the exception raised
load_exec_configs(entries, env) ==
    LET st == RunLoop(LoadStart, entries, env)
    IN  IF st.typeError
        THEN [pc |-> "returned", st |-> [st EXCEPT !.config_dict = EmptyDict]]
        ELSE IF st.exc # "none"
        THEN [pc |-> "raised", st |-> st]
        ELSE [pc |-> "returned", st |-> st]

(***************************************************************************)
(* The config entries the model draws from.                                *)
(***************************************************************************)
Dict(d) == [kind |-> "dict", d |-> d]

EnvA == [x \in {"key"} |-> "value"]
EnvB == [x \in {"key2"} |-> "value2"]

EntryPool ==
    { \* named by the file name of bin_path
      Dict([x \in {"bin_path", "help"} |->
              IF x = "bin_path" THEN PathOf("bin", <<"D", "d">>) ELSE "A"]),
      \* the same canonical name, given explicitly
      Dict([x \in {"name", "bin_path", "help", "env_vars"} |->
              CASE x = "name" -> <<"d", "d">>
                [] x = "bin_path" -> PathOf("bin", <<"l", "s">>)
                [] x = "help" -> "B"
                [] OTHER -> EnvA]),
      \* and once more, with spaces and capitals
      Dict([x \in {"name", "bin_path", "timeout", "env_vars"} |->
              CASE x = "name" -> <<" ", "D", "d">>
                [] x = "bin_path" -> PathOf("bin", <<"d", "d">>)
                [] x = "timeout" -> 1
                [] OTHER -> EnvB]),
      \* downloads
      Dict([x \in {"url", "name"} |->
              IF x = "url" THEN Url("https", "r200") ELSE <<"d", "l">>]),
      Dict([x \in {"url", "name"} |->
              IF x = "url" THEN Url("http", "r404") ELSE <<"n", "f">>]),
      Dict([x \in {"url", "name"} |->
              IF x = "url" THEN Url("http", "rlen4") ELSE <<"b", "i", "g">>]),
      \* a url that is neither http nor https
      Dict([x \in {"url", "name"} |->
              IF x = "url" THEN Url("ftp", "r200") ELSE <<"f", "t">>]),
      \* neither bin_path nor url
      Dict([x \in {"help"} |-> "C"]),
      \* a url and no name
      Dict([x \in {"url", "help"} |->
              IF x = "url" THEN Url("https", "r200") ELSE "D"]),
      \* not a mapping
      [kind |-> "int", d |-> EmptyDict] }

SizeLimits == {3}

\* an empty iterable of config files
NoFiles == [kind |-> "iterable", files |-> <<>>]

IdleLoad ==
    /\ config_files = NoFiles
    /\ loadIn = <<>>
    /\ loadEnv = [MAX_DOWNLOAD_SIZE |-> 3, tempWritable |-> TRUE]
    /\ loadOut = [pc |-> "idle", st |-> LoadStart]

InitLoad ==
    /\ IdleTree
    /\ IdleRun
    /\ IdleLife
    /\ IdleCall
    /\ config_files = NoFiles
    /\ loadIn \in SeqsUpTo(EntryPool, MaxEntries)
    /\ loadEnv \in [MAX_DOWNLOAD_SIZE : SizeLimits, tempWritable : BOOLEAN]
    /\ loadOut = [pc |-> "pending", st |-> LoadStart]

\* a call of _load_exec_configs(config_files)
LoadExecConfigs ==
    /\ loadOut.pc = "pending"
    /\ loadOut' = load_exec_configs(loadIn, loadEnv)
    /\ UNCHANGED <<loadIn, loadEnv, config_files>>
    /\ UNCHANGED <<treeVars, runVars, lifeVars, callVars>>

NextLoad == LoadExecConfigs

SpecLoad == InitLoad /\ [][NextLoad]_vars

(***************************************************************************)
(* What the claims about _load_exec_configs speak of, said without the     *)
(* loop: which entries are accepted, under which name, with which fields.  *)
(***************************************************************************)
IsMapping(e) == e.kind = "dict"

\* an entry of lines 280-288: neither bin_path nor url, or a url and no name
Discardable(e) ==
    /\ IsMapping(e)
    /\ "bin_path" \notin DOMAIN e.d
    /\ ("url" \notin DOMAIN e.d \/ "name" \notin DOMAIN e.d)

\* an entry whose binary is to be fetched
UrlEntry(e) ==
    /\ IsMapping(e)
    /\ "bin_path" \notin DOMAIN e.d
    /\ "url" \in DOMAIN e.d
    /\ "name" \in DOMAIN e.d

BadScheme(e) == UrlEntry(e) /\ e.d["url"].scheme \notin {"http", "https"}

FetchOutcome(e, env) == download_executable(e.d["url"], e.d["name"], env, EmptyDict).exc

FetchFails(e, env) == UrlEntry(e) /\ ~BadScheme(e) /\ FetchOutcome(e, env) # "none"

\* an entry that is to yield or update a descriptor
Accepted(e, env) ==
    /\ IsMapping(e)
    /\ \/ "bin_path" \in DOMAIN e.d
       \/ UrlEntry(e) /\ ~BadScheme(e) /\ FetchOutcome(e, env) = "none"

\* the fields an accepted entry gives
Fields(e) ==
    LET given == Without(e.d, "name")
    IN  IF "bin_path" \in DOMAIN e.d THEN given
        ELSE Put(given, "bin_path", PathOf("TEMP", e.d["name"]))

\* the canonical name of an accepted entry
EntryName(e) ==
    Canonical(IF "name" \in DOMAIN e.d THEN e.d["name"] ELSE e.d["bin_path"].name)

AcceptedAt(n) ==
    {i \in 1..Len(loadIn) : Accepted(loadIn[i], loadEnv) /\ EntryName(loadIn[i]) = n}

AcceptedNames ==
    {EntryName(loadIn[i]) : i \in {j \in 1..Len(loadIn) : Accepted(loadIn[j], loadEnv)}}

MaxOf(S) == CHOOSE x \in S : \A y \in S : y <= x

\* the last entry named n that defines field f
LastDefining(n, f) == MaxOf({i \in AcceptedAt(n) : f \in DOMAIN Fields(loadIn[i])})

LoadReturnedMapping == loadOut.pc = "returned" /\ ~loadOut.st.typeError

\* C5: when _load_exec_configs returns the mapping built from a sequence of
\* config entries, the entries that share a canonical name have yielded one
\* descriptor under that name; its fields are those defined by any of them,
\* each with the value of the last processed entry that defines it (so a
\* nested mapping such as env_vars is that of the later entry, whole).
C5_FieldLevelOverride ==
    LoadReturnedMapping =>
        LET cd == loadOut.st.config_dict
        IN  /\ DOMAIN cd = AcceptedNames
            /\ \A n \in DOMAIN cd :
                 /\ DOMAIN cd[n] = UNION {DOMAIN Fields(loadIn[i]) : i \in AcceptedAt(n)}
                 /\ \A f \in DOMAIN cd[n] :
                      cd[n][f] = Fields(loadIn[LastDefining(n, f)])[f]

\* C5 witness: two entries named dd were merged; help is kept from the
\* earlier one, bin_path and env_vars are those of the later one.
C5_Witness ==
    /\ LoadReturnedMapping
    /\ Cardinality(AcceptedAt(<<"d", "d">>)) >= 2
    /\ <<"d", "d">> \in DOMAIN loadOut.st.config_dict
    /\ LET dd == loadOut.st.config_dict[<<"d", "d">>]
       IN  /\ DOMAIN dd = {"bin_path", "help", "timeout", "env_vars"}
           /\ dd["help"] = "B"
           /\ dd["env_vars"] = EnvB
           /\ dd["bin_path"] = PathOf("bin", <<"d", "d">>)

AllMappings == \A i \in 1..Len(loadIn) : IsMapping(loadIn[i])

\* C8: an entry with a url and a name and no bin_path whose scheme is
\* neither http nor https is discarded: the load returns normally, the
\* mapping holds no descriptor for it and holds every other valid entry.
\* (Stated for loads whose other entries are mappings and whose temp area
\* is writable, so that nothing else can end the load.)
C8_BadSchemeDiscarded ==
    ( /\ loadOut.pc # "pending"
      /\ AllMappings
      /\ loadEnv.tempWritable
      /\ \E i \in 1..Len(loadIn) : BadScheme(loadIn[i]) )
    => /\ loadOut.pc = "returned"
       /\ DOMAIN loadOut.st.config_dict = AcceptedNames

\* C9: when the fetch of a url entry fails (declared size over the maximum,
\* non-2xx status, or an I/O error writing the file), only that entry is
\* discarded: the load returns normally and the mapping holds every other
\* valid entry.  (Stated for loads of mappings without a bad scheme.)
C9_FetchFailureDiscarded ==
    ( /\ loadOut.pc # "pending"
      /\ AllMappings
      /\ \A i \in 1..Len(loadIn) : ~BadScheme(loadIn[i])
      /\ \E i \in 1..Len(loadIn) : FetchFails(loadIn[i], loadEnv) )
    => /\ loadOut.pc = "returned"
       /\ DOMAIN loadOut.st.config_dict = AcceptedNames

Kept(e) == ~Discardable(e)

InitRun ==
    /\ IdleLoad
    /\ IdleTree
    /\ IdleLife
    /\ IdleCall
    /\ EXECUTABLE_CONFIGS = RunConfigs
    /\ binaries = [b \in {BinDd, BinLs} |-> "exec"]
    /\ gen = [i \in Invocations |-> NoGen]
    /\ proc = [i \in Invocations |-> NoProc]

SpecRun == InitRun /\ [][NextRun]_vars

InitCleanup == IdleLoad /\ IdleTree /\ IdleRun /\ IdleLife /\ IdleCall

SpecCleanup == InitCleanup /\ [][NextCleanup]_vars

\* the paths strictly below the system temp root
BelowTemp(p) == Len(p) > Len(SystemTemp) /\ IsPrefix(SystemTemp, p)

\* C1: whatever path _cleanup_tempdir is given, it deletes nothing that
\* lies outside the system temp root: what it removes lies strictly below
\* the temp root, and when the path it is given does not denote a place
\* strictly below the temp root it refuses and removes nothing.
C1_NothingOutsideTempDeleted ==
    LET r == Resolve(fs \cup cleanupLog.removed, <<>>, cleanupLog.path)
    IN  /\ \A p \in cleanupLog.removed : BelowTemp(p)
        /\ (cleanupLog.called /\ r.ok /\ ~BelowTemp(r.at)) =>
               (cleanupLog.refused /\ cleanupLog.removed = {})

(***************************************************************************)
(* The claims about _run_command.                                          *)
(***************************************************************************)
\* the generator of invocation i has ended: its consumer gets no further message
Finished(i) == gen[i].pc \in {"returned", "raised"}

\* the subprocess of invocation i was spawned
Spawned(i) == proc[i].state # "none"

\* the positions in the messages of invocation i that hold a message of this kind
Positions(i, kind) == {k \in 1..Len(gen[i].replies) : gen[i].replies[k].kind = kind}

\* C2: for every invocation whose subprocess spawned, the acknowledgment
\* with the process id is emitted before the output and the return-code
\* messages, and once the generator has ended both of these have been
\* emitted, the output before the return code.
C2_AckThenResult ==
    \A i \in Invocations :
        /\ \A k \in Positions(i, "output") \cup Positions(i, "return code") :
               \E a \in Positions(i, "started") : a < k
        /\ (Spawned(i) /\ Finished(i)) =>
               \E a \in Positions(i, "started"), o \in Positions(i, "output"),
                  r \in Positions(i, "return code") : a < o /\ o < r

\* C3: when a registered command is invoked and its binary is missing at
\* spawn time, the caller receives a message reporting that the executable
\* was not found, and EXECUTABLE_CONFIGS is unchanged.
C3_NotFoundReported ==
    \A i \in Invocations :
        (gen[i].pc = "returned" /\ gen[i].retval.kind = "executable not found") =>
            /\ Positions(i, "executable not found") # {}
            /\ EXECUTABLE_CONFIGS = RunConfigs

\* C4: for every invocation whose subprocess was still running when its
\* effective timeout had elapsed, the messages emitted by the time the
\* generator has ended carry a timeout indicator, and the subprocess is
\* then no longer running.
C4_TimeoutReported ==
    \A i \in Invocations :
        (Spawned(i) /\ Finished(i) /\ proc[i].elapsed > gen[i].timeout) =>
            /\ Positions(i, "timed out") # {}
            /\ proc[i].state = "exited"

(***************************************************************************)
(* The life cycle.  The host checks the configuration it holds, hands it   *)
(* to configure and activates the plugin; it dispatches the commands the   *)
(* plugin registered, and deactivates it.                                  *)
(***************************************************************************)
\* the values of BIN_PATH, CONFIG_PATH and TEMP_PATH: a path, None or ""
PathVal(p) == [kind |-> "path", path |-> p]
NoneVal == [kind |-> "None", path |-> <<>>]
EmptyStr == [kind |-> "empty", path |-> <<>>]

\* the working directory of the bot
Cwd == <<"opt">>

\* Path(value): Path("") is the working directory
AsPath(v) == IF v.kind = "empty" THEN Cwd ELSE v.path

\* the paths the bot's user may not write to
ReadOnly == { <<"etc">>, <<"etc", "f">> }

\* what _validate_path asks the file system about a path
PathInfo(tree, p) ==
    [exists |-> p = <<>> \/ p \in tree,
     kind |-> IF p \in RegularFiles THEN "file" ELSE "dir",
     readable |-> TRUE,
     writable |-> p \notin ReadOnly]

\* a validation that does not look at the write permission
validate_path_unwritten(info, writeable) ==
    info.exists /\ info.kind = "dir" /\ info.readable

\* lines 469-517: _validate_path; FALSE stands for ValidationException
validate_path(info, writeable) ==
    IF ~info.exists THEN FALSE
    ELSE IF info.kind = "file" THEN FALSE
    ELSE IF info.kind = "fifo" THEN FALSE
    ELSE IF info.kind = "block" THEN FALSE
    ELSE IF info.kind = "char" THEN FALSE
    ELSE IF info.kind = "socket" THEN FALSE
    ELSE IF ~info.readable THEN FALSE
    ELSE IF writeable /\ ~info.writable THEN FALSE
    ELSE TRUE

\* lines 177-233: check_configuration; the exception it raises, or "ok"
check_configuration(cfg, tree) ==
    LET d == cfg.d
        valid(v, writeable) == validate_path(PathInfo(tree, AsPath(v)), writeable)
    IN  IF cfg.kind = "None" THEN "ValidationException"
        ELSE IF "BIN_PATH" \notin DOMAIN d THEN "ValidationException"
        ELSE IF d["BIN_PATH"].kind = "None" THEN "TypeError"
        ELSE IF ~valid(d["BIN_PATH"], FALSE) THEN "ValidationException"
        ELSE IF "CONFIG_PATH" \notin DOMAIN d THEN "KeyError"
        ELSE IF d["CONFIG_PATH"].kind # "None" /\ ~valid(d["CONFIG_PATH"], FALSE)
             THEN "ValidationException"
        ELSE IF "TEMP_PATH" \notin DOMAIN d THEN "KeyError"
        ELSE IF d["TEMP_PATH"].kind = "None" THEN "TypeError"
        ELSE IF ~valid(d["TEMP_PATH"], TRUE) THEN "ValidationException"
        ELSE "ok"

\* d.setdefault(k, v)
Default(d, k, v) == IF k \in DOMAIN d THEN d ELSE Put(d, k, v)

\* the environment variables of the bot's process: none is set
NoEnviron == EmptyDict

\* os.getenv(name, default)
GetEnv(environ, name, default) == IF name \in DOMAIN environ THEN environ[name] ELSE default

\* a configure that marks whatever TEMP_PATH it has for cleanup
ClaimTempPath(d) == Put(d, "TMP_CLEANUP", TRUE)

\* lines 139-142: a TEMP_PATH that is None or "" becomes a directory made
\* by _create_temp_dir, to be cleaned up on deactivate
OwnTempPath(d) ==
    IF d["TEMP_PATH"].kind \in {"None", "empty"}
    THEN Put(Put(d, "TEMP_PATH", PathVal(OwnTemp)), "TMP_CLEANUP", TRUE)
    ELSE d

\* lines 108-159: configure, in a process with these environment variables
configure_in(cfg, environ, tree) ==
    LET d0 == IF cfg.kind = "None" THEN EmptyDict ELSE cfg.d
        d1 == Default(d0, "BIN_PATH", GetEnv(environ, "CA_BINPATH", NoneVal))
        \* line 129: os.path.join(None, 'conf.d') is a TypeError
        joinRaises == "CONFIG_PATH" \notin DOMAIN d1 /\ d1["BIN_PATH"].kind = "None"
        conf_d == GetEnv(environ, "CA_CONFPATH",
                         PathVal(Append(AsPath(d1["BIN_PATH"]), "conf.d")))
        d2 == Default(d1, "CONFIG_PATH",
                      IF AsPath(conf_d) \in tree THEN conf_d ELSE NoneVal)
        d3 == IF "TEMP_PATH" \in DOMAIN d2 THEN d2
              ELSE Put(Put(d2, "TEMP_PATH", GetEnv(environ, "CA_TMPPATH", NoneVal)),
                       "TMP_CLEANUP", FALSE)
        makes == d3["TEMP_PATH"].kind \in {"None", "empty"}
        d4 == OwnTempPath(d3)
        d5 == Default(d4, "EXCLUSIONS", {<<>>})
        d6 == Default(d5, "TIMEOUT", 30)
        d7 == Default(d6, "PLUGIN_NAME", "Chatops Anything")
        d8 == Default(d7, "MAX_DOWNLOAD_SIZE", 30000000)
    IN  IF joinRaises
        THEN [exc |-> "TypeError", config |-> d1, tree |-> tree, made |-> FALSE]
        ELSE [exc |-> "none", config |-> d8, made |-> makes,
              tree |-> IF makes THEN create_temp_dir(tree) ELSE tree]

\* lines 108-159: configure, with none of the CA_* and COPS_* environment
\* variables set
configure(cfg, tree) == configure_in(cfg, NoEnviron, tree)

\* a deactivate that lets the failure of destroy_dynamic_plugin out
deactivate_uncaught(cfg, tree, exists) ==
    [cleanup |-> NoCleanup, caught |-> "none",
     raised |-> IF exists THEN "none" ELSE "ValueError", hostStep |-> exists]

\* lines 91-106: deactivate; exists says whether the dynamic plugin of
\* line 89 is there for destroy_dynamic_plugin to destroy
deactivate(cfg, tree, exists) ==
    LET cleans == "TMP_CLEANUP" \in DOMAIN cfg /\ cfg["TMP_CLEANUP"]
    IN  [cleanup |-> IF cleans THEN cleanup_tempdir(tree, AsPath(cfg["TEMP_PATH"]))
                     ELSE NoCleanup,
         caught |-> IF exists THEN "none" ELSE "ValueError",
         raised |-> "none",
         hostStep |-> TRUE]

\* lines 519-544: _get_all_execs_in_path; the names of the regular files of
\* the directory that have an execute bit
get_all_execs_in_path(entries) == {e.name : e \in {x \in entries : x.kind = "file" /\ x.exec}}

\* the orders in which path.iterdir() may hand out the names
Orders(S) ==
    {o \in SeqsUpTo(S, Cardinality(S)) :
        Len(o) = Cardinality(S) /\ \A i, j \in 1..Len(o) : i # j => o[i] # o[j]}

\* lines 446-467: _get_help; the text the executable prints for --help
get_help(executable) == "usage"

\* lines 70-72: the descriptor made for a scanned executable
Synthesized(executable) ==
    [x \in {"bin_path", "help"} |->
        IF x = "bin_path" THEN PathOf("BIN_PATH", executable)
        ELSE get_help(PathOf("BIN_PATH", executable))]

\* a merge in which the scanned executable takes the name it finds taken
MergeExecutableOver(exec_configs, executable, exclusions) ==
    IF Lower(executable) \notin exclusions
    THEN Put(exec_configs, Lower(executable), Synthesized(executable))
    ELSE exec_configs

\* lines 66-72: one turn of the loop over the scanned executables
MergeExecutable(exec_configs, executable, exclusions) ==
    LET name == Lower(executable)
    IN  IF name \notin DOMAIN exec_configs /\ name \notin exclusions
        THEN Put(exec_configs, name, Synthesized(executable))
        ELSE exec_configs

\* lines 65-72: the loop over the scanned executables
RECURSIVE MergeScanned(_, _, _)
MergeScanned(exec_configs, order, exclusions) ==
    IF order = <<>> THEN exec_configs
    ELSE MergeScanned(MergeExecutable(exec_configs, Head(order), exclusions),
                      Tail(order), exclusions)

\* lines 80-81: a descriptor without help gets the executable's own
FillHelp(d) == IF "help" \in DOMAIN d THEN d ELSE Put(d, "help", get_help(d["bin_path"]))

\* what the loader reads of self.config and of the disk
LoadEnvOf(cfg, tree) ==
    [MAX_DOWNLOAD_SIZE |-> cfg["MAX_DOWNLOAD_SIZE"],
     tempWritable |-> LET t == AsPath(cfg["TEMP_PATH"])
                      IN  t \in tree /\ t \notin ReadOnly]

\* a load that does not ask whether CONFIG_PATH is None
LoadConfiguredAlways(cfg, tree, entries) == load_exec_configs(entries, LoadEnvOf(cfg, tree))

\* lines 54-58: the mapping loaded from the config directory, if there is one
LoadConfigured(cfg, tree, entries) ==
    IF cfg["CONFIG_PATH"].kind # "None"
    THEN load_exec_configs(entries, LoadEnvOf(cfg, tree))
    ELSE [pc |-> "returned", st |-> LoadStart]

\* lines 42-89: activate, the executables being enumerated in this order
activate(cfg, tree, entries, order) ==
    LET loaded == LoadConfigured(cfg, tree, entries)
        merged == MergeScanned(loaded.st.config_dict, order, cfg["EXCLUSIONS"])
        exec_configs == [n \in DOMAIN merged |-> FillHelp(merged[n])]
    IN  IF loaded.pc = "raised"
        THEN [exc |-> loaded.st.exc, EXECUTABLE_CONFIGS |-> EmptyDict, commands |-> EmptyDict]
        ELSE [exc |-> "none", EXECUTABLE_CONFIGS |-> exec_configs,
              commands |-> [n \in DOMAIN exec_configs |-> exec_configs[n]["help"]]]

\* the config entries and the directory entries of a life cycle
EntryDd ==
    Dict([x \in {"bin_path", "help"} |->
            IF x = "bin_path" THEN PathOf("bin", <<"D", "d">>) ELSE "A"])
EntryLs ==
    Dict([x \in {"name", "bin_path"} |->
            IF x = "name" THEN <<"l", "s">> ELSE PathOf("bin", <<"l", "s">>)])
EntryDl ==
    Dict([x \in {"url", "name"} |->
            IF x = "url" THEN Url("https", "r200") ELSE <<"d", "l">>])
EntryFtp ==
    Dict([x \in {"url", "name"} |->
            IF x = "url" THEN Url("ftp", "r200") ELSE <<"f", "t">>])

LifePool == {EntryDd, EntryLs, EntryDl, EntryFtp}

DirEntry(name, kind, exec) == [name |-> name, kind |-> kind, exec |-> exec]

FilePool ==
    { DirEntry(<<"D", "d">>, "file", TRUE), DirEntry(<<"d", "d">>, "file", TRUE),
      DirEntry(<<"l", "s">>, "file", TRUE), DirEntry(<<"p", "s">>, "file", TRUE),
      DirEntry(<<"t", "x", "t">>, "file", FALSE) }

\* the configurations the host may hold
LifeConfigs ==
    {NoneConfig} \cup
    { Dict([k \in {"BIN_PATH", "EXCLUSIONS"} \cup c.keys \cup t.keys |->
              CASE k = "BIN_PATH" -> b
                [] k = "EXCLUSIONS" -> x
                [] k = "CONFIG_PATH" -> c.val
                [] OTHER -> t.val]) :
        b \in {PathVal(<<"opt">>), PathVal(<<"gone">>)},
        x \in {{}, {<<"p", "s">>}},
        c \in {[keys |-> {}, val |-> NoneVal]} \cup
              {[keys |-> {"CONFIG_PATH"}, val |-> v] :
                  v \in {NoneVal, PathVal(<<"etc">>), PathVal(<<"etc", "f">>)}},
        t \in {[keys |-> {}, val |-> NoneVal]} \cup
              {[keys |-> {"TEMP_PATH"}, val |-> v] :
                  v \in {EmptyStr, PathVal(<<"tmp", "t">>), PathVal(<<"etc">>)}} }

Init ==
    /\ IdleLoad
    /\ IdleTree
    /\ IdleRun
    /\ IdleCall
    /\ tempMade = FALSE
    /\ deactLog = NoDeactivation
    /\ phase = "Unconfigured"
    /\ configuration \in LifeConfigs
    /\ config = EmptyDict
    /\ checkResult = "none"
    /\ confEntries \in SeqsUpTo(LifePool, MaxLifeEntries)
    /\ listing \in SUBSET FilePool
    /\ commands = EmptyDict
    /\ dispatched = {}

\* the host calls check_configuration(configuration); an exception ends
\* the construction of the plugin
HostCheck ==
    /\ phase = "Unconfigured"
    /\ checkResult' = check_configuration(configuration, fs)
    /\ phase' = IF checkResult' = "ok" THEN "Validated" ELSE "ConfigurationInvalid"
    /\ UNCHANGED <<configuration, config, confEntries, listing, commands, dispatched,
                   tempMade, deactLog>>
    /\ UNCHANGED <<callVars, loadVars, treeVars, runVars>>

\* the host calls configure(configuration)
HostConfigure ==
    /\ phase = "Validated"
    /\ LET r == configure(configuration, fs)
       IN  /\ config' = r.config
           /\ fs' = r.tree
           /\ tempMade' = (tempMade \/ r.made)
           /\ phase' = IF r.exc = "none" THEN "Configured" ELSE "ConfigurationInvalid"
    /\ UNCHANGED <<configuration, checkResult, confEntries, listing, commands, dispatched,
                   deactLog>>
    /\ UNCHANGED <<callVars, loadVars, cleanupLog, runVars>>

\* the host calls activate()
HostActivate ==
    /\ phase = "Configured"
    /\ \E order \in Orders(get_all_execs_in_path(listing)) :
           LET r == activate(config, fs, confEntries, order)
           IN  /\ EXECUTABLE_CONFIGS' = r.EXECUTABLE_CONFIGS
               /\ commands' = r.commands
               /\ phase' = IF r.exc = "none" THEN "Ready" ELSE "ActivationFailed"
    /\ UNCHANGED <<configuration, config, checkResult, confEntries, listing, dispatched,
                   tempMade, deactLog>>
    /\ UNCHANGED <<callVars, loadVars, treeVars, binaries, gen, proc>>

\* the host hands a message to a command the plugin registered
Dispatch ==
    /\ Cardinality(dispatched) < MaxDispatch
    /\ \E c \in (DOMAIN commands) \ dispatched :
           dispatched' = dispatched \cup {c}
    /\ UNCHANGED <<phase, configuration, config, checkResult, confEntries, listing, commands,
                   tempMade, deactLog>>
    /\ UNCHANGED <<callVars, loadVars, treeVars, runVars>>

\* the host calls deactivate(): the dynamic plugin goes when deactivate
\* destroys it, and the host's own step follows
HostDeactivate ==
    /\ phase \in {"Configured", "Ready", "ActivationFailed", "TornDown"}
    /\ deactLog.calls < MaxDeactivations
    /\ LET r == deactivate(config, fs, phase = "Ready")
       IN  /\ cleanupLog' = IF r.cleanup.called THEN r.cleanup ELSE cleanupLog
           /\ fs' = fs \ r.cleanup.removed
           /\ deactLog' = [calls |-> deactLog.calls + 1, caught |-> r.caught,
                           raised |-> r.raised, removed |-> r.cleanup.removed,
                           hostStep |-> r.hostStep]
           /\ commands' = IF r.hostStep \/ r.caught = "none" THEN EmptyDict ELSE commands
           /\ phase' = IF r.hostStep THEN "TornDown" ELSE phase
    /\ UNCHANGED <<configuration, config, checkResult, confEntries, listing, dispatched,
                   tempMade>>
    /\ UNCHANGED <<callVars, loadVars, runVars>>

Next == HostCheck \/ HostConfigure \/ HostActivate \/ Dispatch \/ HostDeactivate

Spec == Init /\ [][Next]_vars

(***************************************************************************)
(* The claims about the life cycle.                                        *)
(***************************************************************************)
\* the config-loaded mapping of the activation
Loaded == LoadConfigured(config, fs, confEntries).st.config_dict

\* the names of the scanned executables: the executable regular files of BIN_PATH
Scanned == {e.name : e \in {x \in listing : x.exec /\ x.kind = "file"}}

\* the name is neither a config-loaded name nor in EXCLUSIONS
Free(name) == name \notin DOMAIN Loaded /\ name \notin config["EXCLUSIONS"]

\* the descriptors of the registry that did not come from the config files
ScannerDerived == (DOMAIN EXECUTABLE_CONFIGS) \ (DOMAIN Loaded)

\* the registry is the config-loaded mapping, untouched but for a missing
\* help, plus names of free scanned executables, none of them excluded
LoadedKeptAndGapsFilled ==
    /\ DOMAIN EXECUTABLE_CONFIGS =
           (DOMAIN Loaded) \cup {Lower(f) : f \in {g \in Scanned : Free(Lower(g))}}
    /\ \A n \in DOMAIN Loaded : EXECUTABLE_CONFIGS[n] = FillHelp(Loaded[n])
    /\ \A n \in ScannerDerived : n \notin config["EXCLUSIONS"]

Usable(v, writeable) ==
    LET p == AsPath(v)
    IN  /\ p \in InitialTree
        /\ p \notin RegularFiles
        /\ writeable => p \notin ReadOnly

\* the host's configuration names the three paths
NamesPaths ==
    /\ configuration.kind = "dict"
    /\ {"BIN_PATH", "CONFIG_PATH", "TEMP_PATH"} \subseteq DOMAIN configuration.d
    /\ configuration.d["TEMP_PATH"].kind # "None"

\* BIN_PATH, CONFIG_PATH when one is configured, and TEMP_PATH for writing
PathsUsable ==
    /\ NamesPaths
    /\ Usable(configuration.d["BIN_PATH"], FALSE)
    /\ configuration.d["CONFIG_PATH"].kind # "None" =>
           Usable(configuration.d["CONFIG_PATH"], FALSE)
    /\ Usable(configuration.d["TEMP_PATH"], TRUE)

ConfigFile(suffix, kind, items) == [suffix |-> suffix, kind |-> kind, items |-> items]

\* lines 351-374: _read_yaml_config
read_yaml_config(file) ==
    IF file.kind = "invalid" THEN <<>>
    ELSE IF file.kind # "list" THEN <<>>
    ELSE file.items

\* lines 376-399: _read_json_config
read_json_config(file) ==
    IF file.kind = "invalid" THEN <<>>
    ELSE IF file.kind # "list" THEN <<>>
    ELSE file.items

\* lines 264-270: the entries read from one file
this_configs(file) ==
    IF file.suffix \in {".yml", ".yaml"} THEN read_yaml_config(file)
    ELSE IF file.suffix = ".json" THEN read_json_config(file)
    ELSE <<>>

\* lines 260-271: itertools.chain of the entries of the files
RECURSIVE loaded_configs(_)
loaded_configs(files) ==
    IF files = <<>> THEN <<>>
    ELSE this_configs(Head(files)) \o loaded_configs(Tail(files))

\* lines 236-322: _load_exec_configs(config_files).  The for statement of
\* line 261 is outside the try of line 277: an argument that cannot be
\* iterated raises TypeError there; a string is iterated character by
\* character, each a file name without a recognized suffix.
load_config_files(arg, env) ==
    IF arg.kind \in {"None", "int"}
    THEN [pc |-> "raised", st |-> [LoadStart EXCEPT !.exc = "TypeError"]]
    ELSE IF arg.kind = "str"
    THEN load_exec_configs(<<>>, env)
    ELSE load_exec_configs(loaded_configs(arg.files), env)

ConfigFilePool ==
    { ConfigFile(".yml", "list", <<EntryDd>>),
      ConfigFile(".json", "list", <<EntryLs, EntryDl>>),
      ConfigFile(".yaml", "dict", <<>>),
      ConfigFile(".json", "str", <<>>),
      ConfigFile(".json", "list", <<[kind |-> "int", d |-> EmptyDict]>>),
      ConfigFile(".yml", "invalid", <<>>),
      ConfigFile(".txt", "list", <<EntryDd>>) }

\* the arguments _load_exec_configs is called with
FileArgs ==
    {[kind |-> "iterable", files |-> f] : f \in SeqsUpTo(ConfigFilePool, MaxFiles)}
    \cup {[kind |-> k, files |-> <<>>] : k \in {"None", "int", "str"}}

InitFiles ==
    /\ IdleTree
    /\ IdleRun
    /\ IdleLife
    /\ IdleCall
    /\ config_files \in FileArgs
    /\ loadIn = <<>>
    /\ loadEnv = [MAX_DOWNLOAD_SIZE |-> 3, tempWritable |-> TRUE]
    /\ loadOut = [pc |-> "pending", st |-> LoadStart]

\* a call of _load_exec_configs(config_files)
LoadConfigFiles ==
    /\ loadOut.pc = "pending"
    /\ loadOut' = load_config_files(config_files, loadEnv)
    /\ loadIn' = IF config_files.kind = "iterable"
                 THEN loaded_configs(config_files.files) ELSE <<>>
    /\ UNCHANGED <<loadEnv, config_files>>
    /\ UNCHANGED <<treeVars, runVars, lifeVars, callVars>>

NextFiles == LoadConfigFiles

SpecFiles == InitFiles /\ [][NextFiles]_vars

\* the file is one the loader reads and holds a sequence of mappings
SequenceOfMappings(file) ==
    /\ file.suffix \in {".yml", ".yaml", ".json"}
    /\ file.kind = "list"
    /\ \A i \in 1..Len(file.items) : IsMapping(file.items[i])

\* the entries of the files that hold a sequence of mappings, in order
RECURSIVE EntriesOfSound(_)
EntriesOfSound(files) ==
    IF files = <<>> THEN <<>>
    ELSE (IF SequenceOfMappings(Head(files)) THEN Head(files).items ELSE <<>>)
         \o EntriesOfSound(Tail(files))

\* C11: a config file whose content is not a sequence of mappings
\* contributes no entry and does not abort the load: the mapping returned
\* is the one the entries of the other files give.
C11_BadFileContributesNothing ==
    (config_files.kind = "iterable" /\ loadOut.pc # "pending") =>
        /\ loadOut.pc = "returned"
        /\ loadOut.st.config_dict =
               load_exec_configs(EntriesOfSound(config_files.files), loadEnv).st.config_dict

\* C15: when the argument of _load_exec_configs cannot be iterated, the
\* loader returns an empty mapping and does not raise.
C15_UnusableArgumentGivesEmptyMapping ==
    (config_files.kind \in {"None", "int"} /\ loadOut.pc # "pending") =>
        /\ loadOut.pc = "returned"
        /\ loadOut.st.config_dict = EmptyDict

(***************************************************************************)
(* The temp directory over any sequence of configure, activate and         *)
(* deactivate: configure is called with any configuration, the dict of an  *)
(* earlier call included, in a process with any of the environments.       *)
(***************************************************************************)
TempConfigs ==
    { Dict([k \in {"BIN_PATH", "EXCLUSIONS"} \cup c.keys \cup t.keys |->
              CASE k = "BIN_PATH" -> PathVal(<<"opt">>)
                [] k = "CONFIG_PATH" -> c.val
                [] k = "EXCLUSIONS" -> {}
                [] OTHER -> t.val]) :
        c \in {[keys |-> {}, val |-> NoneVal]} \cup
              {[keys |-> {"CONFIG_PATH"}, val |-> v] : v \in {NoneVal, PathVal(<<"etc">>)}},
        t \in {[keys |-> {}, val |-> NoneVal]} \cup
              {[keys |-> {"TEMP_PATH"}, val |-> v] :
                  v \in {NoneVal, EmptyStr, PathVal(<<"tmp", "t">>)}} }

TempEnvirons ==
    { NoEnviron,
      [k \in {"CA_TMPPATH"} |-> PathVal(<<"tmp", "t">>)],
      [k \in {"CA_TMPPATH"} |-> EmptyStr],
      [k \in {"CA_CONFPATH"} |-> PathVal(<<"etc">>)] }

\* os.path.join(BIN_PATH, 'conf.d') for the BIN_PATH of TempConfigs
ConfD == <<"opt", "conf.d">>

InitTemp ==
    /\ IdleLoad
    /\ fs \in {InitialTree, InitialTree \cup {ConfD}}
    /\ cleanupLog = NoCleanup
    /\ IdleRun
    /\ IdleCall
    /\ phase = "Unconfigured"
    /\ configuration = NoneConfig
    /\ config = EmptyDict
    /\ checkResult = "none"
    /\ confEntries \in {<<>>, <<EntryDl>>}
    /\ listing = {DirEntry(<<"p", "s">>, "file", TRUE)}
    /\ commands = EmptyDict
    /\ dispatched = {}
    /\ tempMade = FALSE
    /\ deactLog = NoDeactivation

\* configure(configuration), called while the plugin is not active
CallConfigure ==
    /\ phase \in {"Unconfigured", "Configured", "ActivationFailed", "TornDown"}
    /\ \E cfg \in TempConfigs \cup {Dict(config)}, environ \in TempEnvirons :
           LET r == configure_in(cfg, environ, fs)
           IN  /\ "BIN_PATH" \in DOMAIN cfg.d
               /\ configuration' = cfg
               /\ config' = r.config
               /\ fs' = r.tree
               /\ tempMade' = (tempMade \/ r.made)
               /\ phase' = "Configured"
    /\ UNCHANGED <<checkResult, confEntries, listing, commands, dispatched, deactLog>>
    /\ UNCHANGED <<callVars, loadVars, cleanupLog, runVars>>

NextTemp == CallConfigure \/ HostActivate \/ HostDeactivate

SpecTemp == InitTemp /\ [][NextTemp]_vars

C13_DeactivateCompletes ==
    /\ deactLog.calls > 0 =>
           /\ deactLog.raised = "none"
           /\ deactLog.hostStep
           /\ phase = "TornDown"
    /\ deactLog.calls >= 2 => deactLog.removed = {}

\* a second deactivate, after the first deleted the plugin's own temp
\* directory: there is no dynamic plugin left to destroy
C13_Witness ==
    /\ deactLog.calls = 2
    /\ deactLog.caught = "ValueError"
    /\ deactLog.hostStep
    /\ tempMade
    /\ OwnTemp \notin fs
    /\ dispatched # {}

\* the supplied configuration has no CONFIG_PATH
ConfigPathAbsent == configuration.kind = "dict" /\ "CONFIG_PATH" \notin DOMAIN configuration.d

\* the registry holds scanner-derived descriptors only, and nothing was fetched
ScannerDerivedOnly ==
    /\ \A n \in DOMAIN EXECUTABLE_CONFIGS :
           \E f \in Scanned : Lower(f) = n /\ EXECUTABLE_CONFIGS[n] = Synthesized(f)
    /\ LoadConfigured(config, fs, confEntries).st.fetched = <<>>

\* C14 as stated: when CONFIG_PATH is absent from the supplied
\* configuration, no config file is read, no download is attempted and
\* after activate the registry holds scanner-derived descriptors only.
C14_AbsentConfigPathDisablesConfigs ==
    (phase = "Ready" /\ ConfigPathAbsent) =>
        /\ config["CONFIG_PATH"] = NoneVal
        /\ ScannerDerivedOnly

\* C14: when CONFIG_PATH is absent from the supplied configuration,
\* configure takes the directory named by CA_CONFPATH, or else
\* BIN_PATH/conf.d, if it exists, and None if it does not; when it is None
\* no download is attempted and after activate the registry holds
\* scanner-derived descriptors only.
C14_AbsentConfigPathFallsBack ==
    (phase = "Ready" /\ ConfigPathAbsent) =>
        /\ config["CONFIG_PATH"] \in {NoneVal, PathVal(ConfD), PathVal(<<"etc">>)}
        /\ config["CONFIG_PATH"] = NoneVal => (ConfD \notin fs /\ ScannerDerivedOnly)
        /\ config["CONFIG_PATH"] # NoneVal => AsPath(config["CONFIG_PATH"]) \in fs

\* an activation without CONFIG_PATH and without a conf.d directory, the
\* config directory's would-be entries left unread
C14_Witness ==
    /\ phase = "Ready"
    /\ ConfigPathAbsent
    /\ config["CONFIG_PATH"] = NoneVal
    /\ confEntries # <<>>
    /\ EXECUTABLE_CONFIGS # EmptyDict

(***************************************************************************)
(* The names of the registry.                                              *)
(***************************************************************************)
\* config entries and executables whose names need canonicalising
EntrySpaced ==
    Dict([x \in {"name", "bin_path"} |->
            IF x = "name" THEN <<" ", "D", "d">> ELSE PathOf("bin", <<"d", "d">>)])
EntryTwoWords ==
    Dict([x \in {"name", "bin_path"} |->
            IF x = "name" THEN <<"A", " ", "b">> ELSE PathOf("bin", <<"l", "s">>)])

NamePool == {EntryDd, EntrySpaced, EntryTwoWords}

NamedFiles ==
    { DirEntry(<<"A", " ", "b">>, "file", TRUE), DirEntry(<<"B", "a">>, "file", TRUE),
      DirEntry(<<"p", "s">>, "file", TRUE) }

InitNames ==
    /\ IdleLoad
    /\ IdleTree
    /\ IdleRun
    /\ IdleCall
    /\ phase = "Unconfigured"
    /\ configuration =
           Dict([k \in {"BIN_PATH", "CONFIG_PATH", "TEMP_PATH", "EXCLUSIONS"} |->
                   CASE k = "BIN_PATH" -> PathVal(<<"opt">>)
                     [] k = "CONFIG_PATH" -> PathVal(<<"etc">>)
                     [] k = "TEMP_PATH" -> PathVal(<<"tmp", "t">>)
                     [] OTHER -> {}])
    /\ config = EmptyDict
    /\ checkResult = "none"
    /\ confEntries \in SeqsUpTo(NamePool, MaxLifeEntries)
    /\ listing \in SUBSET NamedFiles
    /\ commands = EmptyDict
    /\ dispatched = {}
    /\ tempMade = FALSE
    /\ deactLog = NoDeactivation

SpecNames == InitNames /\ [][Next]_vars

\* the text is lowercase, has no whitespace at its ends and no space in it
IsCanonical(name) ==
    /\ \A i \in 1..Len(name) : name[i] # " " /\ LowerChar(name[i]) = name[i]
    /\ Strip(name) = name

\* C16: in every registry produced by activate every key is a non-empty
\* canonical name: lowercase, without whitespace at its ends and without a
\* space in it (a key names one descriptor: the registry is a mapping).
C16_KeysAreCanonical ==
    phase = "Ready" =>
        \A n \in DOMAIN EXECUTABLE_CONFIGS : n # <<>> /\ IsCanonical(n)

\* C20: for every registered command name c and every argument text a, the
\* command name _run_command recovers from the message that invokes c with
\* a is c: the command is not reported as missing from the config and no
\* other command's descriptor is taken.
C20_CommandNameRecovered ==
    \A i \in Invocations :
        (gen[i].pc \notin {"idle", "created"} /\ Lower(gen[i].typed) \in DOMAIN EXECUTABLE_CONFIGS) =>
            /\ gen[i].command_name = Lower(gen[i].typed)
            /\ gen[i].retval.kind # "not in config"

(***************************************************************************)
(* Methods called on their own: _download_executable, _validate_path and   *)
(* _get_all_execs_in_path, each on the inputs drawn for it.                *)
(***************************************************************************)
DownloadInputs ==
    [fn : {"download"},
     url : {Url("https", res) : res \in {"r200", "rlen3", "rlen4", "r300", "r404"}},
     filename : {<<"d", "l">>},
     env : [MAX_DOWNLOAD_SIZE : SizeLimits, tempWritable : BOOLEAN],
     files : {EmptyDict, [x \in {<<"d", "l">>} |-> [content |-> <<"o">>, exec |-> FALSE]]}]

\* what the file system says of the path handed to _validate_path.  denied:
\* the path lies in a directory the user may not search, so that stat
\* fails with EACCES
ValidateInputs ==
    [fn : {"validate"},
     info : [exists : {TRUE}, denied : {FALSE},
             kind : {"dir", "file", "fifo", "block", "char", "socket"},
             readable : BOOLEAN, writable : BOOLEAN]
            \cup [exists : {FALSE}, denied : {FALSE}, kind : {"dir"},
                  readable : {FALSE}, writable : {FALSE}]
            \cup [exists : BOOLEAN, denied : {TRUE}, kind : {"dir"},
                  readable : {TRUE}, writable : {TRUE}],
     writeable : BOOLEAN]

\* lines 484-517: _validate_path as its caller sees it: the ways it can
\* end.  When stat is denied, Path.exists() of line 487 lets the
\* PermissionError through on the interpreters up to 3.12 and answers
\* False on the later ones; only the PermissionError of iterdir is turned
\* into a ValidationException by the method itself.
validate_path_outcomes(info, writeable) ==
    IF info.denied THEN {"PermissionError", "ValidationException"}
    ELSE IF validate_path(info, writeable) THEN {"True"}
    ELSE {"ValidationException"}

\* the entries below the directory that is scanned: parent "." is the
\* directory itself.  kind and mode are what is_file() and os.stat(), which
\* follow symbolic links, go by.
ScanItem(name, parent, kind, mode) == [name |-> name, parent |-> parent, kind |-> kind, mode |-> mode]

\* path.iterdir(): the direct children
Iterdir(items, path) == {i \in items : i.parent = path}

\* fs_item.is_file()
is_file(item) == item.kind \in {"file", "link to file"}

\* the owner's execute bit alone
ExecutableByOwner(mode) == "S_IEXEC" \in mode

\* lines 532 and 543: mode & (stat.S_IEXEC | stat.S_IXGRP | stat.S_IXOTH)
Executable(mode) == mode \cap {"S_IEXEC", "S_IXGRP", "S_IXOTH"} # {}

\* lines 519-544: _get_all_execs_in_path on the entries of a tree
all_execs_in_path(items, path) ==
    get_all_execs_in_path(
        {DirEntry(i.name, IF is_file(i) THEN "file" ELSE i.kind, Executable(i.mode)) :
            i \in Iterdir(items, path)})

ScanItems ==
    { ScanItem(<<"r", "u", "n">>, ".", "file", {"S_IXGRP"}),
      ScanItem(<<"a", "l", "l">>, ".", "file", {"S_IEXEC", "S_IXGRP", "S_IXOTH", "S_IRUSR"}),
      ScanItem(<<"t", "x", "t">>, ".", "file", {"S_IRUSR", "S_IWUSR"}),
      ScanItem(<<"s", "u", "b">>, ".", "dir", {"S_IEXEC", "S_IXGRP", "S_IXOTH"}),
      ScanItem(<<"i", "n">>, "sub", "file", {"S_IEXEC"}),
      ScanItem(<<"l", "d">>, ".", "link to dir", {"S_IEXEC", "S_IXGRP", "S_IXOTH"}),
      ScanItem(<<"l", "f">>, ".", "link to file", {"S_IXOTH"}) }

ScanInputs == [fn : {"scan"}, items : SUBSET ScanItems]

InitCalls ==
    /\ IdleLoad
    /\ IdleTree
    /\ IdleRun
    /\ IdleLife
    /\ \/ callIn \in DownloadInputs
       \/ callIn \in ValidateInputs
       \/ callIn \in ScanInputs
    /\ callOut = [pc |-> "pending"]

\* a call of _download_executable(url, filename)
CallDownload ==
    /\ callOut.pc = "pending"
    /\ callIn.fn = "download"
    /\ callOut' = [pc |-> "done",
                   r |-> download_executable(callIn.url, callIn.filename, callIn.env, callIn.files)]
    /\ UNCHANGED <<callIn, loadVars, treeVars, runVars, lifeVars>>

\* a call of _validate_path(path, writeable)
CallValidatePath ==
    /\ callOut.pc = "pending"
    /\ callIn.fn = "validate"
    /\ \E outcome \in validate_path_outcomes(callIn.info, callIn.writeable) :
           callOut' = [pc |-> "done", r |-> outcome]
    /\ UNCHANGED <<callIn, loadVars, treeVars, runVars, lifeVars>>

\* a call of _get_all_execs_in_path(path), the generator run to its end
CallGetAllExecs ==
    /\ callOut.pc = "pending"
    /\ callIn.fn = "scan"
    /\ callOut' = [pc |-> "done", r |-> all_execs_in_path(callIn.items, ".")]
    /\ UNCHANGED <<callIn, loadVars, treeVars, runVars, lifeVars>>

NextCalls == CallDownload \/ CallValidatePath \/ CallGetAllExecs

SpecCalls == InitCalls /\ [][NextCalls]_vars

Called(fn) == callIn.fn = fn /\ callOut.pc = "done"

\* C17: where the destination can be written, _download_executable succeeds
\* exactly when the status is 2xx and a declared content-length does not
\* exceed MAX_DOWNLOAD_SIZE; on success the file destination_name of the
\* temp area holds the response body and has its execute bits set; on
\* another status or an oversized declared length it raises and leaves
\* the temp area as it was.
C17_DownloadSucceedsExactlyOn2xx ==
    (Called("download") /\ callIn.env.tempWritable) =>
        LET response == Server(callIn.url.res)
            fits == response.length = -1 \/ response.length <= callIn.env.MAX_DOWNLOAD_SIZE
            good == response.status >= 200 /\ response.status < 300 /\ fits
            r == callOut.r
        IN  /\ good <=> r.exc = "none"
            /\ good =>
                   /\ callIn.filename \in DOMAIN r.files
                   /\ r.files[callIn.filename] = [content |-> response.body, exec |-> TRUE]
            /\ ~good => r.files = callIn.files

\* C18: _get_all_execs_in_path yields exactly the direct children that are
\* regular files (a symbolic link being taken for what it points to) with
\* at least one of the owner, group and other execute bits: no directory,
\* no link to a directory, no file without an execute bit and no entry of
\* a subdirectory.
C18_ScanYieldsExecutableFiles ==
    Called("scan") =>
        callOut.r =
            {i.name : i \in {j \in callIn.items :
                /\ j.parent = "."
                /\ j.kind \in {"file", "link to file"}
                /\ \E b \in {"S_IEXEC", "S_IXGRP", "S_IXOTH"} : b \in j.mode}}

\* a scan of a directory with every kind of entry
C18_Witness ==
    /\ Called("scan")
    /\ callIn.items = ScanItems
    /\ callOut.r = {<<"r", "u", "n">>, <<"a", "l", "l">>, <<"l", "f">>}

\* C19: _validate_path(path, writeable) returns True exactly when the path
\* exists, is not a regular file, FIFO, block device, character device or
\* socket, its entries can be enumerated, and, when writeable is
\* requested, the user has write access; in every other case it raises
\* ValidationException.
C19_ValidatePathTrueOrValidationException ==
    Called("validate") =>
        LET info == callIn.info
            valid == /\ info.exists
                     /\ ~info.denied
                     /\ info.kind \notin {"file", "fifo", "block", "char", "socket"}
                     /\ info.readable
                     /\ callIn.writeable => info.writable
        IN  callOut.r = IF valid THEN "True" ELSE "ValidationException"

====
